---- MODULE Spec2Model ----
(***************************************************************************)
(* A model of recollection's Memento (src/recollection/core.py): the       *)
(* registration of bindings, the store / restore state machine, bounded    *)
(* history, lock-step groups with their re-entrancy guard, defer() and     *)
(* omit() blocks, signals, copied and shared values, Inference's           *)
(* auto-store, and the serialiser boundary.                                *)
(* Execution is single threaded and synchronous, so                        *)
(* every public call is one atomic action; the nested calls it makes are   *)
(* recursive operators that thread a record of the mutable world.          *)
(***************************************************************************)
EXTENDS Integers, Sequences, FiniteSets, TLC

\* ---------------------------------------------------------------- bounds
\* Longest history (len(_states)) an action may produce.
MaxHist == 4
\* Longest history in the serialiser specification.
MaxPersistHist == 3
\* Longest history in the grouping specification.
MaxGroupHist == 3
\* Most group() calls recorded in the grouping specification.
MaxGroupCalls == 4
\* Longest history in the registration specification.
MaxRegHist == 2
\* The positive max_states the capped tracker is constructed with.
CapStates == 2
\* Most stores followed in the record of a store-only history.
MaxStores == 4
\* Longest history in the specification of targets going out of scope.
MaxScopeHist == 3
\* Nesting of store/restore calls the model follows before giving up.
MaxDepth == 6
\* Most mutable objects alive at once.
MaxObjects == 4
\* Longest history in the specification of the serialiser round trip.
MaxRoundHist == 2
\* Longest history in the specification of signals.
MaxSignalHist == 2
\* Longest history in the specification of mutable values.
MaxCopyHist == 3
\* Deepest nesting of defer() / omit() blocks.
MaxNest == 1
\* Most suppressed store() calls counted per block.
MaxHeld == 2
\* Longest history in the specification of an auto-storing target.
MaxWindowHist == 3
\* Most connections one signal holds.
MaxSlots == 2
\* Most lock-step groups in the specification of call chains.
MaxGroups == 2
\* Most entries of one lock-step group in the specification of call chains.
MaxMembers == 3
\* The positive max_states of the trackers in the specification of call chains.
ChainCap == 1

\* the longest history of the auto-storing target with two bindings
MaxAutoHist == 4

\* ------------------------------------------------------------- universes
Trackers == {"a", "b", "c"}
Names == {"x", "y"}
Values == {0, 1}
Identifiers == {"id"}
\* the signals of a Memento
Channels == {"registered", "unregistered", "stored", "restored"}
\* the callables a caller connects to them
Callbacks == {"f", "g"}
\* the mutable objects an attribute may refer to, by address; every other
\* value is immutable
Objects == {10 + i : i \in 1..MaxObjects}
\* the content of an address no object lives at
Unallocated == -1

NoErr == "ok"
\* the "no value given" of an optional argument (None)
None == ""
\* what the backend returns for an identifier nothing was written under (None)
NoFile == [exists |-> FALSE, data |-> <<>>]
File(data) == [exists |-> TRUE, data |-> data]

VARIABLES
    target,               \* target[t][n]: attribute n of the object t tracks
    alive,                \* alive[t]: the weak reference _target still resolves
    items_to_record,      \* _items_to_record: sequence of bindings
    states,               \* _states: most recent snapshot first
    max_states,           \* _max_states (0: unbounded)
    defer,                \* _defer
    serialiser,           \* _serialiser / _serialisation_identifier / _always_serialise
    files,                \* what the backend holds under each identifier
    SYNC_GROUPS,          \* Memento._SYNC_GROUPS: list of lists
    ACTIVELY_PROCESSING,  \* _SyncGroupPropogation._ACTIVELY_PROCESSING
    heap,                 \* heap[o]: the content of the mutable object o
    slots,                \* slots[t][ch]: Signal._slots of t's signal ch
    window,               \* window[t]: the defer() / omit() blocks t's caller is inside
    heard,                \* observer: how often the last call invoked each callback
    call,                 \* observer: the last public call and what it did
    storeLog,             \* observer: target values at each store of a store-only history
    groupLog              \* observer: the group() calls made so far

vars == <<target, alive, items_to_record, states, max_states, defer, serialiser,
          files, SYNC_GROUPS, ACTIVELY_PROCESSING, heap, slots, window, heard,
          call, storeLog, groupLog>>

\* ------------------------------------------------------- sequence helpers
Range(s) == {s[i] : i \in 1..Len(s)}

Min(m, n) == IF m <= n THEN m ELSE n

\* a slip: the entry goes to the end of the list
InsertLast(s, e) == Append(s, e)

\* list.insert(0, e)
Insert0(s, e) == <<e>> \o s

\* list.pop() : the list without its last element
PopLast(s) == SubSeq(s, 1, Len(s) - 1)

\* Python's s[i]: valid for -len(s) <= i < len(s), negative from the end
IndexOk(s, i) == i < Len(s) /\ i >= 0 - Len(s)
\* a slip: counting every index from the end of the list
IndexPosFromEnd(s, i) == IF i >= 0 THEN Len(s) - i ELSE Len(s) + i + 1
IndexPos(s, i) == IF i >= 0 THEN i + 1 ELSE Len(s) + i + 1

\* list.remove(e): drops the first occurrence of e
RECURSIVE RemoveFirst(_, _)
RemoveFirst(s, e) ==
    IF s = <<>> THEN <<>>
    ELSE IF Head(s) = e THEN Tail(s)
    ELSE <<Head(s)>> \o RemoveFirst(Tail(s), e)

\* dict[k] = v
DictSet(d, k, v) == [l \in DOMAIN d \cup {k} |-> IF l = k THEN v ELSE d[l]]

EmptyDict == [l \in {} |-> 0]


\* --------------------------------------------------------------- bindings
\* _ItemToRecord for an attribute-name getter and setter.
\* storing: a write through the binding makes the target call store(), as
\* an attribute of an Inference object does.
ItemWith(label, getter, setter, copy_value) ==
    [label |-> label, getter |-> getter, setter |-> setter, copy_value |-> copy_value,
     storing |-> FALSE]

\* the same with register()'s default, copy_value=True
Item(label, getter, setter) == ItemWith(label, getter, setter, TRUE)

\* the same on a target that is an Inference object: __setattr__ stores
\* after every write to a registered label
ItemStoring(label, getter, setter) ==
    [Item(label, getter, setter) EXCEPT !.storing = TRUE]

\* Memento.labels()
labels(t) == [i \in 1..Len(items_to_record[t]) |-> items_to_record[t][i].label]

\* ------------------------------------------------------------------ world
\* The part of the program state a store/restore call chain can change,
\* with the events of the chain (log) and the exception in flight (err).
Silent == [c \in Callbacks |-> 0]

World ==
    [states |-> states, target |-> target, defer |-> defer,
     active |-> ACTIVELY_PROCESSING, files |-> files, heap |-> heap,
     heard |-> Silent, log |-> <<>>, err |-> NoErr]

Raise(W, e) == [W EXCEPT !.err = e]

Event(W, kind, t) == [W EXCEPT !.log = Append(@, <<kind, t>>)]

\* Signal.emit: every connected slot is called, in connection order
RECURSIVE CallSlots(_, _)
CallSlots(h, ss) ==
    IF ss = <<>> THEN h
    ELSE CallSlots([h EXCEPT ![Head(ss)] = @ + 1], Tail(ss))

\* a slip: emit reaches the first slot only
EmitToFirst(W, ch, t) ==
    [Event(W, ch, t) EXCEPT
        !.heard = CallSlots(@, IF slots[t][ch] = <<>> THEN <<>> ELSE <<Head(slots[t][ch])>>)]

\* t.<ch>.emit()
Emit(W, ch, t) == [Event(W, ch, t) EXCEPT !.heard = CallSlots(@, slots[t][ch])]

\* the lowest address no object lives at
Fresh(h) == CHOOSE o \in Objects : h[o] = Unallocated /\ \A p \in Objects : p < o => h[p] # Unallocated

\* a slip: the copy is the object itself
DeepCopyShared(W, v) == [W |-> W, value |-> v]

\* copy.deepcopy(v): an immutable value is itself; a mutable object gives a
\* new object with the same content
DeepCopy(W, v) ==
    IF v \notin Objects THEN [W |-> W, value |-> v]
    ELSE IF \A o \in Objects : W.heap[o] # Unallocated
         THEN [W |-> Raise(W, "MemoryError"), value |-> v]
         ELSE [W |-> [W EXCEPT !.heap[Fresh(W.heap)] = W.heap[v]], value |-> Fresh(W.heap)]

\* _ItemToRecord.get: _copy(getattr(target, getter))
ItemGet(W, t, item) ==
    IF item.copy_value THEN DeepCopy(W, W.target[t][item.getter])
    ELSE [W |-> W, value |-> W.target[t][item.getter]]

\* the loop of store(): snapshot[item.label] = item.get()
RECURSIVE TakeSnapshot(_, _, _, _)
TakeSnapshot(W, t, its, snapshot) ==
    IF its = <<>> \/ W.err # NoErr THEN [W |-> W, snapshot |-> snapshot]
    ELSE LET got == ItemGet(W, t, Head(its))
         IN TakeSnapshot(got.W, t, Tail(its),
                         DictSet(snapshot, Head(its).label, got.value))

\* ----------------------------------------------------------------- groups
\* Memento.sync_group: the first group that holds t, else t alone.
RECURSIVE FirstGroupOf(_, _)
FirstGroupOf(groups, t) ==
    IF groups = <<>> THEN <<t>>
    ELSE IF t \in Range(Head(groups)) THEN Head(groups)
    ELSE FirstGroupOf(Tail(groups), t)

sync_group(t) == FirstGroupOf(SYNC_GROUPS, t)

\* a slip: the guard never looks at what is already being processed
GuardEnterUnguarded(active, t) ==
    [ctx |-> sync_group(t),
     active |-> active \o sync_group(t),
     peers |-> SelectSeq(sync_group(t), LAMBDA m : m # t)]

\* _SyncGroupPropogation.__enter__: the members it marks (ctx), the guard
\* list afterwards, and the peers handed to the with-block.
GuardEnter(active, t) ==
    IF t \in Range(active)
    THEN [ctx |-> <<>>, active |-> active, peers |-> <<>>]
    ELSE [ctx |-> sync_group(t),
          active |-> active \o sync_group(t),
          peers |-> SelectSeq(sync_group(t), LAMBDA m : m # t)]

\* _SyncGroupPropogation.__exit__: pop each marked member, remove it once.
RECURSIVE GuardExit(_, _)
GuardExit(active, ctx) ==
    IF ctx = <<>> THEN active
    ELSE GuardExit(RemoveFirst(active, ctx[Len(ctx)]), PopLast(ctx))

\* -------------------------------------------------------------- serialise
\* json.dump / pickle.dump of one value: what is written of a mutable object
\* is its content, not its address
Encode(h, v) ==
    IF v \in Objects THEN [boxed |-> TRUE, content |-> h[v]]
    ELSE [boxed |-> FALSE, content |-> v]

\* the backend's serialise(data, identifier), as far as the file content
EncodeEach(h, snapshot) == [l \in DOMAIN snapshot |-> Encode(h, snapshot[l])]

\* json.load / pickle.load: every written object comes back as a new object
RECURSIVE DecodeEach(_, _, _, _)
DecodeEach(W, data, todo, snapshot) ==
    IF todo = {} \/ W.err # NoErr THEN [W |-> W, snapshot |-> snapshot]
    ELSE LET l == CHOOSE k \in todo : TRUE
         IN IF ~data[l].boxed
            THEN DecodeEach(W, data, todo \ {l}, DictSet(snapshot, l, data[l].content))
            ELSE IF \A o \in Objects : W.heap[o] # Unallocated
                 THEN [W |-> Raise(W, "MemoryError"), snapshot |-> snapshot]
                 ELSE DecodeEach([W EXCEPT !.heap[Fresh(W.heap)] = data[l].content],
                                 data, todo \ {l}, DictSet(snapshot, l, Fresh(W.heap)))

\* a slip: nothing is asked of the serialiser registration
SerialiseUnchecked(W, t) ==
    IF W.states[t] = <<>> THEN Raise(W, "IndexError")
    ELSE Event(W, "serialise", t)

\* Memento.serialise
Serialise(W, t) ==
    IF ~serialiser[t].registered THEN Raise(W, "Exception")
    ELSE IF W.states[t] = <<>> THEN Raise(W, "IndexError")
    ELSE Event([W EXCEPT !.files[serialiser[t].identifier] =
                            File(EncodeEach(W.heap, W.states[t][1]))],
               "serialise", t)

\* ---------------------------------------------------------- store/restore
RECURSIVE Store(_, _, _, _)
RECURSIVE StoreEach(_, _, _, _)
RECURSIVE Restore(_, _, _, _)
RECURSIVE RestoreEach(_, _, _, _)

\* "except (AttributeError, StorageError): pass"
Swallowed(W) ==
    IF W.err \in {"AttributeError", "StorageError"} THEN [W EXCEPT !.err = NoErr] ELSE W

\* a slip: the assignment is made and nothing is stored
SetattrOnly(W, t, name, value, d) == [W EXCEPT !.target[t][name] = value]

\* Inference.__setattr__: the assignment, then store() when the name is a
\* registered label, AttributeError and StorageError swallowed
Setattr(W, t, name, value, d) ==
    IF name \in Range(labels(t))
    THEN Swallowed(Store([W EXCEPT !.target[t][name] = value], t, FALSE, d))
    ELSE [W EXCEPT !.target[t][name] = value]

\* _ItemToRecord.set: setattr(target, label, value); the dead weak reference
\* resolves to None, which has no attributes to set; on an Inference object
\* the assignment is its __setattr__.
ItemSet(W, t, item, v, d) ==
    IF ~alive[t] THEN Raise(W, "AttributeError")
    ELSE IF item.storing THEN Setattr(Event(W, "write", t), t, item.label, v, d)
    ELSE Event([W EXCEPT !.target[t][item.label] = v], "write", t)

\* a slip: a label the snapshot lacks is passed over
RECURSIVE SetEachFound(_, _, _, _, _)
SetEachFound(W, t, its, snapshot, d) ==
    IF its = <<>> \/ W.err # NoErr THEN W
    ELSE IF Head(its).label \notin DOMAIN snapshot
         THEN SetEachFound(W, t, Tail(its), snapshot, d)
         ELSE SetEachFound(ItemSet(W, t, Head(its), snapshot[Head(its).label], d),
                           t, Tail(its), snapshot, d)

\* the loop of restore(): item.set(snapshot[item.label])
RECURSIVE SetEach(_, _, _, _, _)
SetEach(W, t, its, snapshot, d) ==
    IF its = <<>> \/ W.err # NoErr THEN W
    ELSE IF Head(its).label \notin DOMAIN snapshot THEN Raise(W, "KeyError")
    ELSE SetEach(ItemSet(W, t, Head(its), snapshot[Head(its).label], d),
                 t, Tail(its), snapshot, d)

\* a slip: the target is never looked at
TargetGoneUnseen(t) == FALSE

\* "not self._target()": the weak reference no longer resolves
TargetGone(t) == ~alive[t]

\* a slip: on overflow the entry just pushed goes, not the oldest
PushKeepOldest(sts, snapshot, cap) ==
    IF cap # 0 /\ Len(Insert0(sts, snapshot)) > cap
    THEN Tail(Insert0(sts, snapshot))
    ELSE Insert0(sts, snapshot)

\* the push and the eviction of store()
Push(sts, snapshot, cap) ==
    IF cap # 0 /\ Len(Insert0(sts, snapshot)) > cap
    THEN PopLast(Insert0(sts, snapshot))
    ELSE Insert0(sts, snapshot)

\* the lock-step block of store(), guard included
StorePeers(W, t, serialise, d) ==
    LET g == GuardEnter(W.active, t)
        W1 == StoreEach([W EXCEPT !.active = g.active], g.peers, serialise, d)
    IN [W1 EXCEPT !.active = GuardExit(W1.active, g.ctx)]

\* a slip: the flag is never looked at
DeferredUnseen(W, t) == FALSE

\* "if self._defer": t is inside a deferred window
Deferred(W, t) == W.defer[t]

\* a slip: the always-serialise flag is never looked at
SerialisingOnRequest(t, serialise) == serialise

\* "if serialise or self._always_serialise"
Serialising(t, serialise) == serialise \/ serialiser[t].always

\* Memento.store
Store(W, t, serialise, d) ==
    IF d = 0 THEN Raise(W, "RecursionError")
    ELSE IF Deferred(W, t) THEN W
    ELSE IF TargetGone(t) THEN Raise(W, "StorageError")
    ELSE LET taken == TakeSnapshot(W, t, items_to_record[t], EmptyDict)
             W1 == Event([taken.W EXCEPT
                             !.states[t] = Push(@, taken.snapshot, max_states[t])],
                         "push", t)
             W2 == IF Serialising(t, serialise) THEN Serialise(W1, t) ELSE W1
         IN IF taken.W.err # NoErr THEN taken.W
            ELSE IF W2.err # NoErr THEN W2
            ELSE StorePeers(Emit(W2, "stored", t), t, serialise, d - 1)

\* a slip: the peers are visited from the last to the first
RECURSIVE StoreEachReversed(_, _, _, _)
StoreEachReversed(W, peers, serialise, d) ==
    IF peers = <<>> \/ W.err # NoErr THEN W
    ELSE StoreEachReversed(Store(W, peers[Len(peers)], serialise, d), PopLast(peers),
                           serialise, d)

StoreEach(W, peers, serialise, d) ==
    IF peers = <<>> \/ W.err # NoErr THEN W
    ELSE StoreEach(Store(W, Head(peers), serialise, d), Tail(peers), serialise, d)

\* a slip: the marked members are unmarked only when the block ends without
\* an exception
RestorePeersUnwound(W, t, index, d) ==
    LET g == GuardEnter(W.active, t)
        W1 == RestoreEach([W EXCEPT !.active = g.active], g.peers, index, d)
    IN IF W1.err # NoErr THEN W1
       ELSE [W1 EXCEPT !.active = GuardExit(W1.active, g.ctx)]

\* the lock-step block of restore(), guard included
RestorePeers(W, t, index, d) ==
    LET g == GuardEnter(W.active, t)
        W1 == RestoreEach([W EXCEPT !.active = g.active], g.peers, index, d)
    IN [W1 EXCEPT !.active = GuardExit(W1.active, g.ctx)]

\* a slip: the window closes and nothing is stored
DeferExitSilent(W, t, serialise, d) == [W EXCEPT !.defer[t] = FALSE]

\* the tail of Memento.defer, run only when the with-block did not raise:
\* _defer = False, then store(serialise)
DeferExit(W, t, serialise, d) ==
    Store([W EXCEPT !.defer[t] = FALSE], t, serialise, d)

\* the statements of restore() after the writes, each reached only when
\* nothing was raised before it: the lock-step block,
RestoreSync(W, t, index, d) ==
    IF W.err # NoErr THEN W ELSE RestorePeers(W, t, index, d)

\* the end of the deferred window,
RestoreClose(W, t, d) ==
    IF W.err # NoErr THEN W ELSE DeferExit(W, t, FALSE, d)

\* and self.restored.emit()
RestoreEmit(W, t) ==
    IF W.err # NoErr THEN W ELSE Emit(W, "restored", t)

\* a slip: the window is entered and the flag is left as it was
DeferOpenUnset(W, t) == W

\* the head of Memento.defer, up to the yield: _defer = True
DeferOpen(W, t) == [W EXCEPT !.defer[t] = TRUE]

\* Memento.restore
Restore(W, t, index, d) ==
    IF d = 0 THEN Raise(W, "RecursionError")
    ELSE LET W1 == Event(DeferOpen(W, t), "restore", t)
         IN IF ~IndexOk(W1.states[t], index) THEN Raise(W1, "IndexError")
            ELSE LET snapshot == W1.states[t][IndexPos(W1.states[t], index)]
                 IN RestoreEmit(
                        RestoreClose(
                            RestoreSync(
                                SetEach(W1, t, items_to_record[t], snapshot, d - 1),
                                t, index, d - 1),
                            t, d - 1),
                        t)

\* a slip: the peers are never restored
RestoreEachNone(W, peers, index, d) == W

\* a slip: a peer's exception is caught and the next peer is visited
RECURSIVE RestoreEachIsolated(_, _, _, _)
RestoreEachIsolated(W, peers, index, d) ==
    IF peers = <<>> THEN W
    ELSE LET W1 == Restore(W, Head(peers), index, d)
         IN RestoreEachIsolated([W1 EXCEPT !.err = NoErr], Tail(peers), index, d)

\* "for memento in sync_group: memento.restore(index)"
RestoreEach(W, peers, index, d) ==
    IF peers = <<>> \/ W.err # NoErr THEN W
    ELSE RestoreEach(Restore(W, Head(peers), index, d), Tail(peers), index, d)

\* a slip: the loaded snapshot goes into the history and is never restored
DeserialiseUnrestored(W, t, d) ==
    IF ~serialiser[t].registered THEN Raise(W, "Exception")
    ELSE LET deserialisation == W.files[serialiser[t].identifier]
             loaded == DecodeEach(W, deserialisation.data, DOMAIN deserialisation.data,
                                  EmptyDict)
         IN IF ~deserialisation.exists \/ DOMAIN deserialisation.data = {} THEN W
            ELSE Event([loaded.W EXCEPT !.states[t] = Insert0(@, loaded.snapshot)],
                       "insert", t)

\* Memento.deserialise
Deserialise(W, t, d) ==
    IF ~serialiser[t].registered THEN Raise(W, "Exception")
    ELSE LET deserialisation == W.files[serialiser[t].identifier]
             loaded == DecodeEach(W, deserialisation.data, DOMAIN deserialisation.data,
                                  EmptyDict)
         IN IF ~deserialisation.exists \/ DOMAIN deserialisation.data = {} THEN W
            ELSE IF loaded.W.err # NoErr THEN loaded.W
            ELSE Restore(Event([loaded.W EXCEPT !.states[t] = Insert0(@, loaded.snapshot)],
                               "insert", t),
                         t, 0, d)


\* ----------------------------------------------------------- registration
\* a slip: no look at the labels already registered
RegisterOneUnchecked(its, getter, setter, label) ==
    [items |-> Append(its, Item(IF label = None THEN getter ELSE label, getter,
                                IF setter = None THEN getter ELSE setter)),
     err |-> NoErr, emitted |-> 1]

\* Memento.register for one getter: the binding list afterwards and the error.
RegisterOne(its, getter, setter, label) ==
    LET setter_ == IF setter = None THEN getter ELSE setter
        label_ == IF label = None THEN getter ELSE label
        existing_labels == {its[i].label : i \in 1..Len(its)}
    IN IF label_ \in existing_labels
       THEN [items |-> its, err |-> "RegistrationError", emitted |-> 0]
       ELSE [items |-> Append(its, Item(label_, getter, setter_)), err |-> NoErr,
             emitted |-> 1]

\* Memento.register for a list of attribute names: one call per element,
\* cut short by the first that raises.
RECURSIVE RegisterEach(_, _)
RegisterEach(R, getters) ==
    IF getters = <<>> \/ R.err # NoErr THEN R
    ELSE LET r == RegisterOne(R.items, Head(getters), None, None)
         IN RegisterEach([items |-> r.items, err |-> r.err,
                          emitted |-> R.emitted + r.emitted],
                         Tail(getters))

\* a slip: the bindings stay as they are
UnregisterNone(its, label) == its

\* Memento.unregister: every binding with that label goes.
UnregisterLabel(its, label) == SelectSeq(its, LAMBDA item : item.label # label)

\* how many bindings unregister(label) removes, each with one emit
Removed(its, label) == Len(its) - Len(UnregisterLabel(its, label))

\* a slip: other is appended without a look at the members
RECURSIVE GroupIntoUnchecked(_, _, _)
GroupIntoUnchecked(groups, self, other) ==
    IF groups = <<>> THEN << <<self, other>> >>
    ELSE IF self \in Range(Head(groups))
         THEN <<Append(Head(groups), other)>> \o Tail(groups)
         ELSE <<Head(groups)>> \o GroupIntoUnchecked(Tail(groups), self, other)

\* Memento.group on the list of groups
RECURSIVE GroupInto(_, _, _)
GroupInto(groups, self, other) ==
    IF groups = <<>> THEN << <<self, other>> >>
    ELSE IF self \in Range(Head(groups))
         THEN IF other \notin Range(Head(groups))
              THEN <<Append(Head(groups), other)>> \o Tail(groups)
              ELSE groups
         ELSE <<Head(groups)>> \o GroupInto(Tail(groups), self, other)

\* ------------------------------------------------------------- observers
\* the last public call: which, on which tracker, and how it ended
Call(op, self, err) == [op |-> op, self |-> self, err |-> err]

\* the same, with the argument of the call
CallWith(op, self, err, arg) == [op |-> op, self |-> self, err |-> err, arg |-> arg]

\* n emits of one signal
RECURSIVE EmitTimes(_, _, _)
EmitTimes(h, ss, n) == IF n = 0 THEN h ELSE EmitTimes(CallSlots(h, ss), ss, n - 1)

\* how often the event <<kind, t>> occurs in a log
RECURSIVE CountEvents(_, _, _)
CountEvents(log, kind, t) ==
    IF log = <<>> THEN 0
    ELSE (IF Head(log) = <<kind, t>> THEN 1 ELSE 0) + CountEvents(Tail(log), kind, t)

Repeat(n, e) == [i \in 1..n |-> e]

\* no record is kept of this history
Unkept == [kept |-> FALSE, at |-> <<>>]

\* storeLog after a store() call: for each snapshot pushed, the target's
\* attributes and the bindings at that moment
LogStores(W) ==
    [u \in Trackers |->
        IF storeLog[u].kept
        THEN [storeLog[u] EXCEPT
                !.at = @ \o Repeat(CountEvents(W.log, "push", u),
                                   [target |-> W.target[u], items |-> items_to_record[u]])]
        ELSE storeLog[u]]

\* storeLog after a restore() or deserialise() call: a history they touched
\* is no longer the record of stores alone
LogDropped(W) ==
    [u \in Trackers |->
        IF \E i \in 1..Len(W.log) : W.log[i][2] = u THEN Unkept ELSE storeLog[u]]

Commit(W) ==
    /\ states' = W.states
    /\ target' = W.target
    /\ defer' = W.defer
    /\ files' = W.files
    /\ ACTIVELY_PROCESSING' = W.active
    /\ heap' = W.heap
    /\ heard' = W.heard

Bounded(W, maxlen) ==
    /\ \A u \in Trackers : Len(W.states[u]) <= maxlen
    /\ W.err # "MemoryError"

\* ---------------------------------------------------------------- actions
\* the caller assigns an attribute of the target object
SetAttr(t, n, v) ==
    /\ alive[t]
    /\ target[t][n] # v
    /\ target' = [target EXCEPT ![t][n] = v]
    /\ call' = Call("setattr", t, NoErr)
    /\ heard' = Silent
    /\ UNCHANGED <<alive, items_to_record, states, max_states, defer, serialiser,
                   files, SYNC_GROUPS, ACTIVELY_PROCESSING, heap, slots, window,
                   storeLog, groupLog>>

\* "target.name = [value]": a new mutable object is made and assigned
NewObject(t, name, value) ==
    /\ alive[t]
    /\ \E o \in Objects : heap[o] = Unallocated
    /\ heap' = [heap EXCEPT ![Fresh(heap)] = value]
    /\ target' = [target EXCEPT ![t][name] = Fresh(heap)]
    /\ call' = Call("new", t, NoErr)
    /\ heard' = Silent
    /\ UNCHANGED <<alive, items_to_record, states, max_states, defer, serialiser,
                   files, SYNC_GROUPS, ACTIVELY_PROCESSING, slots, window, storeLog,
                   groupLog>>

\* "target.name.content = value": the object the attribute refers to is
\* changed in place
Mutate(t, name, value) ==
    /\ alive[t]
    /\ target[t][name] \in Objects
    /\ heap[target[t][name]] # value
    /\ heap' = [heap EXCEPT ![target[t][name]] = value]
    /\ call' = Call("mutate", t, NoErr)
    /\ heard' = Silent
    /\ UNCHANGED <<target, alive, items_to_record, states, max_states, defer,
                   serialiser, files, SYNC_GROUPS, ACTIVELY_PROCESSING, slots, window,
                   storeLog, groupLog>>

\* t.<ch>.connect(c): the slot is appended, connected before or not
Connect(t, ch, c) ==
    /\ Len(slots[t][ch]) < MaxSlots
    /\ slots' = [slots EXCEPT ![t][ch] = Append(@, c)]
    /\ call' = Call("connect", t, NoErr)
    /\ heard' = Silent
    /\ UNCHANGED <<target, alive, items_to_record, states, max_states, defer,
                   serialiser, files, SYNC_GROUPS, ACTIVELY_PROCESSING, heap, window,
                   storeLog, groupLog>>

\* t.<ch>.disconnect(c): every slot that refers to c is removed
Disconnect(t, ch, c) ==
    /\ slots' = [slots EXCEPT ![t][ch] = SelectSeq(@, LAMBDA slot : slot # c)]
    /\ call' = Call("disconnect", t, NoErr)
    /\ heard' = Silent
    /\ UNCHANGED <<target, alive, items_to_record, states, max_states, defer,
                   serialiser, files, SYNC_GROUPS, ACTIVELY_PROCESSING, heap, window,
                   storeLog, groupLog>>

\* the last strong reference to t's target goes away
Destroy(t) ==
    /\ alive[t]
    /\ alive' = [alive EXCEPT ![t] = FALSE]
    /\ call' = Call("del", t, NoErr)
    /\ heard' = Silent
    /\ UNCHANGED <<target, items_to_record, states, max_states, defer, serialiser,
                   files, SYNC_GROUPS, ACTIVELY_PROCESSING, heap, slots, window,
                   storeLog, groupLog>>

\* an open defer(serialise) or omit() block; held is an observer: how many
\* store() calls returned at the _defer check while it was the innermost
Block(kind, serialise) == [kind |-> kind, serialise |-> serialise, held |-> 0]

\* window after n more store() calls on t were met by _defer
Hold(t, n) ==
    IF window[t] # <<>> /\ defer[t]
    THEN [window EXCEPT ![t][Len(window[t])].held = Min(@ + n, MaxHeld)]
    ELSE window

\* "with t.defer(serialise):" is entered: _defer = True, up to the yield
DeferEnter(t, serialise) ==
    /\ Len(window[t]) < MaxNest
    /\ window' = [window EXCEPT ![t] = Append(@, Block("defer", serialise))]
    /\ defer' = [defer EXCEPT ![t] = TRUE]
    /\ call' = Call("defer", t, NoErr)
    /\ heard' = Silent
    /\ UNCHANGED <<target, alive, items_to_record, states, max_states, serialiser,
                   files, SYNC_GROUPS, ACTIVELY_PROCESSING, heap, slots, storeLog,
                   groupLog>>

\* "with t.omit():" is entered: _defer = True, up to the yield
OmitEnter(t) ==
    /\ Len(window[t]) < MaxNest
    /\ window' = [window EXCEPT ![t] = Append(@, Block("omit", FALSE))]
    /\ defer' = [defer EXCEPT ![t] = TRUE]
    /\ call' = Call("omit", t, NoErr)
    /\ heard' = Silent
    /\ UNCHANGED <<target, alive, items_to_record, states, max_states, serialiser,
                   files, SYNC_GROUPS, ACTIVELY_PROCESSING, heap, slots, storeLog,
                   groupLog>>

\* the innermost with-block of t is left without an exception: the rest of
\* omit() (_defer = False) or of defer() (_defer = False, store(serialise))
WindowExit(t, maxlen) ==
    /\ window[t] # <<>>
    /\ LET block == window[t][Len(window[t])]
           W == IF block.kind = "omit" THEN [World EXCEPT !.defer[t] = FALSE]
                ELSE DeferExit(World, t, block.serialise, MaxDepth)
       IN /\ Bounded(W, maxlen)
          /\ Commit(W)
          /\ call' = CallWith(block.kind \o "_exit", t, W.err, block.held)
          /\ storeLog' = LogStores(W)
    /\ window' = [window EXCEPT ![t] = PopLast(@)]
    /\ UNCHANGED <<alive, items_to_record, max_states, serialiser, SYNC_GROUPS,
                   slots, groupLog>>

\* "target.name = value" on a target that is an Inference object
Assign(t, name, value, maxlen) ==
    /\ alive[t]
    /\ LET W == Setattr(World, t, name, value, MaxDepth)
       IN /\ Bounded(W, maxlen)
          /\ Commit(W)
          /\ call' = CallWith("assign", t, W.err, name)
          /\ storeLog' = LogStores(W)
    /\ window' = Hold(t, IF name \in Range(labels(t)) THEN 1 ELSE 0)
    /\ UNCHANGED <<alive, items_to_record, max_states, serialiser, SYNC_GROUPS,
                   slots, groupLog>>

\* t.store(serialise)
StoreCall(t, serialise, maxlen) ==
    LET W == Store(World, t, serialise, MaxDepth)
    IN /\ Bounded(W, maxlen)
       /\ \A u \in Trackers : Len(LogStores(W)[u].at) <= MaxStores
       /\ Commit(W)
       /\ call' = IF serialise THEN CallWith("store", t, W.err, "serialise")
                  ELSE Call("store", t, W.err)
       /\ storeLog' = LogStores(W)
       /\ window' = Hold(t, 1)
       /\ UNCHANGED <<alive, items_to_record, max_states, serialiser, SYNC_GROUPS,
                      slots, groupLog>>

\* t.restore(index)
RestoreCall(t, index, maxlen) ==
    LET W == Restore(World, t, index, MaxDepth)
    IN /\ Bounded(W, maxlen)
       /\ Commit(W)
       /\ call' = Call("restore", t, W.err)
       /\ storeLog' = LogDropped(W)
       /\ UNCHANGED <<alive, items_to_record, max_states, serialiser, SYNC_GROUPS,
                      slots, window, groupLog>>

\* t.deserialise()
DeserialiseCall(t, maxlen) ==
    LET W == Deserialise(World, t, MaxDepth)
    IN /\ Bounded(W, maxlen)
       /\ Commit(W)
       /\ call' = Call("deserialise", t, W.err)
       /\ storeLog' = LogDropped(W)
       /\ UNCHANGED <<alive, items_to_record, max_states, serialiser, SYNC_GROUPS,
                      slots, window, groupLog>>

\* t.serialise()
SerialiseCall(t) ==
    LET W == Serialise(World, t)
    IN /\ Commit(W)
       /\ call' = Call("serialise", t, W.err)
       /\ UNCHANGED <<alive, items_to_record, max_states, serialiser, SYNC_GROUPS,
                      slots, window, storeLog, groupLog>>

\* t.register_serialiser(serialiser, identifier, always_serialise)
RegisterSerialiser(t, identifier, always_serialise) ==
    /\ serialiser' = [serialiser EXCEPT ![t] =
            [registered |-> TRUE, identifier |-> identifier, always |-> always_serialise]]
    /\ call' = Call("register_serialiser", t, NoErr)
    /\ heard' = Silent
    /\ UNCHANGED <<target, alive, items_to_record, states, max_states, defer, files,
                   SYNC_GROUPS, ACTIVELY_PROCESSING, heap, slots, window, storeLog,
                   groupLog>>

\* t.unregister_serialiser()
UnregisterSerialiser(t) ==
    /\ serialiser' = [serialiser EXCEPT ![t] =
            [registered |-> FALSE, identifier |-> None, always |-> FALSE]]
    /\ call' = Call("unregister_serialiser", t, NoErr)
    /\ heard' = Silent
    /\ UNCHANGED <<target, alive, items_to_record, states, max_states, defer, files,
                   SYNC_GROUPS, ACTIVELY_PROCESSING, heap, slots, window, storeLog,
                   groupLog>>

\* t.register(getter, setter, label)
RegisterCall(t, getter, setter, label) ==
    LET r == RegisterOne(items_to_record[t], getter, setter, label)
    IN /\ items_to_record' = [items_to_record EXCEPT ![t] = r.items]
       /\ call' = Call("register", t, r.err)
       /\ heard' = EmitTimes(Silent, slots[t]["registered"], r.emitted)
       /\ UNCHANGED <<target, alive, states, max_states, defer, serialiser, files,
                      SYNC_GROUPS, ACTIVELY_PROCESSING, heap, slots, window, storeLog,
                      groupLog>>

\* t.register([getter, ...])
RegisterList(t, getters) ==
    LET r == RegisterEach([items |-> items_to_record[t], err |-> NoErr, emitted |-> 0],
                          getters)
    IN /\ items_to_record' = [items_to_record EXCEPT ![t] = r.items]
       /\ call' = Call("register_list", t, r.err)
       /\ heard' = EmitTimes(Silent, slots[t]["registered"], r.emitted)
       /\ UNCHANGED <<target, alive, states, max_states, defer, serialiser, files,
                      SYNC_GROUPS, ACTIVELY_PROCESSING, heap, slots, window, storeLog,
                      groupLog>>

\* t.unregister(label)
UnregisterCall(t, label) ==
    /\ items_to_record' = [items_to_record EXCEPT ![t] = UnregisterLabel(@, label)]
    /\ call' = CallWith("unregister", t, NoErr, label)
    /\ heard' = EmitTimes(Silent, slots[t]["unregistered"],
                          Removed(items_to_record[t], label))
    /\ UNCHANGED <<target, alive, states, max_states, defer, serialiser, files,
                   SYNC_GROUPS, ACTIVELY_PROCESSING, heap, slots, window, storeLog,
                   groupLog>>

\* self.group(other); the call is recorded while the record has room
GroupCall(self, other, maxlog) ==
    /\ maxlog > 0 => Len(groupLog) < maxlog
    /\ SYNC_GROUPS' = GroupInto(SYNC_GROUPS, self, other)
    /\ groupLog' = IF maxlog > 0 THEN Append(groupLog, <<self, other>>) ELSE groupLog
    /\ call' = Call("group", self, NoErr)
    /\ heard' = Silent
    /\ UNCHANGED <<target, alive, items_to_record, states, max_states, defer,
                   serialiser, files, ACTIVELY_PROCESSING, heap, slots, window,
                   storeLog>>


\* --------------------------------------------------------- specifications
\* The state after construction: Memento(target, max_states) for each
\* tracker with the bindings its (registered at construction, as the owners
\* of a tracker do), nothing stored, and the groups made so far.
Constructed(maxes, its, logged, groups) ==
    /\ target = [t \in Trackers |-> [n \in Names |-> 0]]
    /\ alive = [t \in Trackers |-> TRUE]
    /\ items_to_record = [t \in Trackers |-> its]
    /\ states = [t \in Trackers |-> <<>>]
    /\ max_states = maxes
    /\ defer = [t \in Trackers |-> FALSE]
    /\ serialiser = [t \in Trackers |->
                        [registered |-> FALSE, identifier |-> None, always |-> FALSE]]
    /\ files = [i \in Identifiers |-> NoFile]
    /\ SYNC_GROUPS = groups
    /\ ACTIVELY_PROCESSING = <<>>
    /\ heap = [o \in Objects |-> Unallocated]
    /\ slots = [t \in Trackers |-> [ch \in Channels |-> <<>>]]
    /\ window = [t \in Trackers |-> <<>>]
    /\ heard = Silent
    /\ call = Call("init", "a", NoErr)
    /\ storeLog = [t \in Trackers |-> [kept |-> t \in logged, at |-> <<>>]]
    /\ groupLog = <<>>

\* Spec: one tracker, "a", over one attribute, with unbounded or capped
\* history: bind, change the target, store, restore.
Indexes == -1..MaxHist

Init == \E m \in {0, CapStates} : Constructed([t \in Trackers |-> m], <<>>, {"a"}, <<>>)

Next ==
    \/ \E v \in Values : SetAttr("a", "x", v)
    \/ RegisterCall("a", "x", None, None)
    \/ StoreCall("a", FALSE, MaxHist)
    \/ \E index \in Indexes : RestoreCall("a", index, MaxHist)

Spec == Init /\ [][Next]_vars

\* SpecPersist: the same tracker, its history capped, with a serialiser.
PersistIndexes == {0, 1}

InitPersist == Constructed([t \in Trackers |-> CapStates], <<>>, {}, <<>>)

NextPersist ==
    \/ \E v \in Values : SetAttr("a", "x", v)
    \/ RegisterCall("a", "x", None, None)
    \/ UnregisterCall("a", "x")
    \/ \E serialise \in BOOLEAN : StoreCall("a", serialise, MaxPersistHist)
    \/ \E index \in PersistIndexes : RestoreCall("a", index, MaxPersistHist)
    \/ \E always \in BOOLEAN : RegisterSerialiser("a", "id", always)
    \/ UnregisterSerialiser("a")
    \/ SerialiseCall("a")
    \/ DeserialiseCall("a", MaxPersistHist)

SpecPersist == InitPersist /\ [][NextPersist]_vars

\* SpecRegister: one tracker over two attributes, bindings coming and going.
RegIndexes == 0..MaxRegHist

InitRegister == Constructed([t \in Trackers |-> 0], <<>>, {}, <<>>)

NextRegister ==
    \/ \E n \in Names, v \in Values : SetAttr("a", n, v)
    \/ \E n \in Names : RegisterCall("a", n, None, None)
    \/ \E n, m \in Names : RegisterList("a", <<n, m>>)
    \/ \E n \in Names : UnregisterCall("a", n)
    \/ StoreCall("a", FALSE, MaxRegHist)
    \/ \E index \in RegIndexes : RestoreCall("a", index, MaxRegHist)

SpecRegister == InitRegister /\ [][NextRegister]_vars

\* SpecScope: one tracker whose target may go out of scope, inside and
\* outside omit() blocks.
ScopeIndexes == {0, 1}

NextScope ==
    \/ \E v \in Values : SetAttr("a", "x", v)
    \/ RegisterCall("a", "x", None, None)
    \/ StoreCall("a", FALSE, MaxScopeHist)
    \/ \E index \in ScopeIndexes : RestoreCall("a", index, MaxScopeHist)
    \/ OmitEnter("a")
    \/ WindowExit("a", MaxScopeHist)
    \/ Destroy("a")

SpecScope == InitRegister /\ [][NextScope]_vars

\* SpecWindow: an Inference object and its memento "a" (Memento(self), so
\* max_states is the default), attribute x bound in __init__ under the label
\* x or y: assignments, explicit stores and restores, inside and outside
\* defer() and omit() blocks.
DefaultMaxStates == 100

WindowIndexes == {0, 1}

InitWindow ==
    \E label \in Names :
        Constructed([t \in Trackers |-> DefaultMaxStates],
                    <<ItemStoring(label, "x", "x")>>, {}, <<>>)

NextWindow ==
    \/ \E n \in Names, v \in Values : Assign("a", n, v, MaxWindowHist)
    \/ StoreCall("a", FALSE, MaxWindowHist)
    \/ \E index \in WindowIndexes : RestoreCall("a", index, MaxWindowHist)
    \/ DeferEnter("a", FALSE)
    \/ OmitEnter("a")
    \/ WindowExit("a", MaxWindowHist)

SpecWindow == InitWindow /\ [][NextWindow]_vars

\* SpecCopy: one tracker whose attribute x may refer to a mutable object,
\* bound with copy_value True or False.
CopyIndexes == {0, 1}

InitCopy ==
    \E copy_value \in BOOLEAN :
        Constructed([t \in Trackers |-> 0], <<ItemWith("x", "x", "x", copy_value)>>,
                    {"a"}, <<>>)

NextCopy ==
    \/ \E v \in Values : NewObject("a", "x", v)
    \/ \E v \in Values : Mutate("a", "x", v)
    \/ StoreCall("a", FALSE, MaxCopyHist)
    \/ \E index \in CopyIndexes : RestoreCall("a", index, MaxCopyHist)

SpecCopy == InitCopy /\ [][NextCopy]_vars

\* SpecSignal: one tracker, callback f connected to and disconnected from
\* any of its signals and g from 'stored', while bindings come and go and
\* the tracker stores and restores.
SignalIndexes == {0, 1}

NextSignal ==
    \/ \E ch \in Channels : Connect("a", ch, "f")
    \/ Connect("a", "stored", "g")
    \/ \E ch \in Channels : Disconnect("a", ch, "f")
    \/ Disconnect("a", "stored", "g")
    \/ RegisterCall("a", "x", None, None)
    \/ UnregisterCall("a", "x")
    \/ \E serialise \in BOOLEAN : StoreCall("a", serialise, MaxSignalHist)
    \/ \E index \in SignalIndexes : RestoreCall("a", index, MaxSignalHist)

SpecSignal == InitRegister /\ [][NextSignal]_vars

\* SpecGroups: group() calls alone, over three trackers.
NextGroups == \E self, other \in Trackers : GroupCall(self, other, MaxGroupCalls)

SpecGroups == InitRegister /\ [][NextGroups]_vars

\* SpecPair: trackers a and b after a.group(b), each bound to attribute x
\* of its own target: change the targets, store, restore.
Pair == {"a", "b"}

PairIndexes == {0, 1}

InitPair ==
    Constructed([t \in Trackers |-> 0], <<Item("x", "x", "x")>>, {},
                GroupInto(<<>>, "a", "b"))

NextPair ==
    \/ \E t \in Pair, v \in Values : SetAttr(t, "x", v)
    \/ \E t \in Pair : StoreCall(t, FALSE, MaxGroupHist)
    \/ \E t \in Pair, index \in PairIndexes : RestoreCall(t, index, MaxGroupHist)

SpecPair == InitPair /\ [][NextPair]_vars

\* SpecSync: a and b, bound the same way, grouped at will; their targets
\* keep their values.
SyncIndexes == 0..MaxGroupHist

InitSync == Constructed([t \in Trackers |-> 0], <<Item("x", "x", "x")>>, {}, <<>>)

NextSync ==
    \/ \E self, other \in Pair : GroupCall(self, other, 0)
    \/ \E t \in Pair : StoreCall(t, FALSE, MaxGroupHist)
    \/ \E t \in Pair, index \in SyncIndexes : RestoreCall(t, index, MaxGroupHist)

SpecSync == InitSync /\ [][NextSync]_vars

\* SpecRound: tracker a stores and serialises; tracker b, over a target of
\* its own with the same bindings, deserialises under the same identifier.
InitRound ==
    Constructed([t \in Trackers |-> 0], <<Item("x", "x", "x"), Item("y", "y", "y")>>,
                {}, <<>>)

NextRound ==
    \/ \E t \in Pair : RegisterSerialiser(t, "id", FALSE)
    \/ \E v \in Values : SetAttr("a", "y", v)
    \/ \E v \in Values : NewObject("a", "x", v)
    \/ \E serialise \in BOOLEAN : StoreCall("a", serialise, MaxRoundHist)
    \/ SerialiseCall("a")
    \/ DeserialiseCall("b", MaxRoundHist)

SpecRound == InitRound /\ [][NextRound]_vars


\* SpecChain: three trackers over targets that keep their values, their
\* histories capped, grouped at will (a tracker with itself and overlapping
\* groups included) while the list of groups stays within its bounds.
GroupsWithin(groups) ==
    /\ Len(groups) <= MaxGroups
    /\ \A i \in 1..Len(groups) : Len(groups[i]) <= MaxMembers

InitChain ==
    Constructed([t \in Trackers |-> ChainCap], <<Item("x", "x", "x")>>, {}, <<>>)

NextChain ==
    \/ \E self, other \in Trackers :
          GroupCall(self, other, 0) /\ GroupsWithin(SYNC_GROUPS')
    \/ \E t \in Pair : StoreCall(t, FALSE, ChainCap)
    \/ \E t \in Pair : RestoreCall(t, 0, ChainCap)

SpecChain == InitChain /\ [][NextChain]_vars


\* SpecOrder: three trackers in one lock-step group, made at construction in
\* any order of joining, their histories capped; serialisers come one by
\* one, and any of the three stores, with or without serialise.
Orders ==
    {p \in [1..3 -> Trackers] : \A i, j \in 1..3 : p[i] = p[j] => i = j}

InitOrder ==
    \E p \in Orders :
        Constructed([t \in Trackers |-> CapStates], <<Item("x", "x", "x")>>, {},
                    GroupInto(GroupInto(<<>>, p[1], p[2]), p[1], p[3]))

NextOrder ==
    \/ \E t \in Trackers : RegisterSerialiser(t, "id", FALSE)
    \/ RegisterSerialiser("a", "id", TRUE)
    \/ \E t \in Trackers, serialise \in BOOLEAN : StoreCall(t, serialise, CapStates)

SpecOrder == InitOrder /\ [][NextOrder]_vars


\* SpecQuiet: a and b after a.group(b), over targets that keep their
\* values, histories capped; a has a callback on 'stored' and a serialiser
\* registered again and again, its caller enters and leaves defer() and
\* omit() blocks, and its target may go out of scope.
InitQuiet ==
    Constructed([t \in Trackers |-> CapStates], <<Item("x", "x", "x")>>, {},
                GroupInto(<<>>, "a", "b"))

NextQuiet ==
    \/ \E always \in BOOLEAN : RegisterSerialiser("a", "id", always)
    \/ Connect("a", "stored", "f")
    \/ \E t \in Pair, serialise \in BOOLEAN : StoreCall(t, serialise, CapStates)
    \/ DeferEnter("a", FALSE)
    \/ OmitEnter("a")
    \/ WindowExit("a", CapStates)
    \/ Destroy("a")

SpecQuiet == InitQuiet /\ [][NextQuiet]_vars


\* ================================================================ claims
Stores(t) == storeLog[t].at

\* the snapshot a store made at the moment storeLog recorded as e
SnapshotAt(e) ==
    [l \in {e.items[i].label : i \in 1..Len(e.items)} |->
        e.target[e.items[CHOOSE i \in 1..Len(e.items) : e.items[i].label = l].getter]]

\* every label bound now is a key of the snapshot
Covers(snapshot, t) ==
    \A i \in 1..Len(items_to_record[t]) : items_to_record[t][i].label \in DOMAIN snapshot

C2_BoundedHistory ==
    (max_states["a"] > 0 /\ storeLog["a"].kept) =>
        LET n == Len(Stores("a"))
        IN /\ Len(states["a"]) = Min(n, max_states["a"])
           /\ \A i \in 0..(Len(states["a"]) - 1) :
                 states["a"][i + 1] = SnapshotAt(Stores("a")[n - i])

\* C2 witness: more stores than max_states, with different values, the last
\* call a store.
C2_Witness ==
    /\ max_states["a"] = CapStates
    /\ storeLog["a"].kept
    /\ Len(Stores("a")) > CapStates
    /\ call = Call("store", "a", NoErr)
    /\ states["a"][1] # states["a"][CapStates]
    /\ DOMAIN states["a"][CapStates] # {}


\* a and b are each other's only lock-step peer
TwoCycle(A, B) ==
    /\ A # B
    /\ sync_group(A) = sync_group(B)
    /\ Len(sync_group(A)) = 2
    /\ Range(sync_group(A)) = {A, B}

\* store() would run its body on t: no deferred window open, target alive
Storable(t) == ~defer[t] /\ alive[t]

\* C3: with A and B alone in one lock-step group, a store() on either makes
\* exactly one store on A and one on B: each history grows by exactly one,
\* and the call returns.
C3_OneStoreEach ==
    \A A, B \in Pair :
        (TwoCycle(A, B) /\ Storable(A) /\ Storable(B)) =>
            LET W == Store(World, A, FALSE, MaxDepth)
            IN /\ W.err = NoErr
               /\ \A u \in {A, B} :
                     /\ CountEvents(W.log, "push", u) = 1
                     /\ Len(W.states[u]) = Len(states[u]) + 1

\* C3 witness: b.store() has just returned with a and b alone in one group,
\* and each history has its one entry.
C3_Witness ==
    /\ TwoCycle("a", "b")
    /\ call = Call("store", "b", NoErr)
    /\ Len(states["a"]) = 1
    /\ Len(states["b"]) = 1

\* every binding of t, read back, gives what the snapshot holds for it
RestoredTo(W, t, snapshot) ==
    \A i \in 1..Len(items_to_record[t]) :
        W.target[t][items_to_record[t][i].getter] = snapshot[items_to_record[t][i].label]

\* C4: with A and B grouped, A.restore(k) for a k both histories have
\* sets A's bound values to A's snapshot at index k and B's to B's.
C4_RestoreBoth ==
    \A A, B \in Pair : \A k \in 0..MaxGroupHist :
        (TwoCycle(A, B) /\ k < Len(states[A]) /\ k < Len(states[B])) =>
            LET W == Restore(World, A, k, MaxDepth)
            IN /\ W.err = NoErr
               /\ RestoredTo(W, A, states[A][k + 1])
               /\ RestoredTo(W, B, states[B][k + 1])

\* C4 witness: a.restore(k) has just returned on the grouped pair, both
\* targets differing from each other and standing at an older snapshot.
C4_Witness ==
    /\ TwoCycle("a", "b")
    /\ call = Call("restore", "a", NoErr)
    /\ Len(states["a"]) >= 2
    /\ Len(states["b"]) >= 2
    /\ target["a"]["x"] # target["b"]["x"]
    /\ states["a"][1] = states["a"][2]
    /\ states["b"][1] = states["b"][2]

\* C5 as claimed: whatever the group, a store() or restore(k) on a member
\* makes at most one store and at most one restore on each tracker.
C5_AtMostOnce ==
    \A t \in Pair :
        /\ \A u \in Pair : CountEvents(Store(World, t, FALSE, MaxDepth).log, "push", u) <= 1
        /\ \A k \in 0..MaxGroupHist : \A u \in Pair :
              /\ CountEvents(Restore(World, t, k, MaxDepth).log, "push", u) <= 1
              /\ CountEvents(Restore(World, t, k, MaxDepth).log, "restore", u) <= 1

\* C6 as claimed: a capped history never holds more than max_states entries.
C6_CountWithinCap ==
    max_states["a"] > 0 => Len(states["a"]) <= max_states["a"]

\* C7: after a.group(b) and b.group(a) any number of times (once at least),
\* then a.group(c), sync_group(a) holds a, b and c, each once.
C7_GroupIdempotent ==
    \A a, b, c \in Trackers :
        (/\ Cardinality({a, b, c}) = 3
         /\ Len(groupLog) >= 2
         /\ groupLog[Len(groupLog)] = <<a, c>>
         /\ \A i \in 1..(Len(groupLog) - 1) : groupLog[i] \in {<<a, b>>, <<b, a>>})
        => /\ Len(sync_group(a)) = 3
           /\ Range(sync_group(a)) = {a, b, c}

\* C7 witness: a.group(b), b.group(a), a.group(b), then a.group(c).
C7_Witness ==
    /\ groupLog = << <<"a", "b">>, <<"b", "a">>, <<"a", "b">>, <<"a", "c">> >>
    /\ call = Call("group", "a", NoErr)
    /\ Len(sync_group("a")) = 3

\* C8 as claimed: no tracker is a member of two sync groups.
C8_Partition ==
    \A t \in Trackers :
        Cardinality({i \in 1..Len(SYNC_GROUPS) : t \in Range(SYNC_GROUPS[i])}) <= 1

\* C9 as claimed: when other is in lock-step with a third tracker c,
\* a.group(other) puts all three in lock-step: sync_group() of each of them
\* is then {a, other, c}.
C9_JoinsOthersGroup ==
    \A a, other, c \in Trackers :
        (Cardinality({a, other, c}) = 3 /\ c \in Range(sync_group(other))) =>
            \A t \in {a, other, c} :
                Range(FirstGroupOf(GroupInto(SYNC_GROUPS, a, other), t)) = {a, other, c}

\* C10: labels are unique among a tracker's bindings, and register() with a
\* label already bound raises RegistrationError and leaves the bindings be.
C10_LabelsUnique ==
    LET its == items_to_record["a"]
    IN /\ \A i, j \in 1..Len(its) : its[i].label = its[j].label => i = j
       /\ \A n \in Names :
             (\E i \in 1..Len(its) : its[i].label = n) =>
                 /\ RegisterOne(its, n, None, None).err = "RegistrationError"
                 /\ RegisterOne(its, n, None, None).items = its

\* C10 witness: with both labels bound, a register() has just been refused.
C10_Witness ==
    /\ Len(items_to_record["a"]) = 2
    /\ call = Call("register", "a", "RegistrationError")

\* C11: store() outside a deferred window on a tracker whose target has
\* been destroyed raises StorageError and leaves the history as it was.
C11_StoreOutOfScope ==
    (~alive["a"] /\ ~defer["a"]) =>
        \A serialise \in BOOLEAN :
            LET W == Store(World, "a", serialise, MaxDepth)
            IN /\ W.err = "StorageError"
               /\ W.states = states
               /\ CountEvents(W.log, "push", "a") = 0

\* C11 witness: with snapshots in the history and no window open, a store()
\* on the destroyed target has just raised StorageError.
C11_Witness ==
    /\ ~alive["a"]
    /\ ~defer["a"]
    /\ call = Call("store", "a", "StorageError")
    /\ Len(states["a"]) >= 2
    /\ items_to_record["a"] # <<>>

\* C12 as claimed: restore(k) with a valid k on a tracker with attribute-name
\* bindings and a destroyed target fails with StorageError.
C12_RestoreOutOfScope ==
    \A k \in ScopeIndexes :
        (~alive["a"] /\ items_to_record["a"] # <<>> /\ k < Len(states["a"])) =>
            Restore(World, "a", k, MaxDepth).err = "StorageError"

\* what store() would record of t's target now
Reading(t) ==
    [l \in Range(labels(t)) |->
        target[t][items_to_record[t][CHOOSE i \in 1..Len(items_to_record[t]) :
                                        items_to_record[t][i].label = l].getter]]

\* C13: while one omit() or defer() block is open and _defer is set, every
\* store trigger (an assignment to the auto-storing target, a store() call)
\* leaves the history as it is; leaving the omit() block leaves it so too;
\* leaving the defer() block puts exactly one snapshot, of the values the
\* target then has, on top of it.
C13_Windows ==
    [][(Len(window["a"]) = 1 /\ defer["a"]) =>
          /\ call'.op \in {"assign", "store"} =>
                (states' = states /\ defer'["a"] /\ call'.err = NoErr)
          /\ call'.op = "omit_exit" => states' = states
          /\ call'.op = "defer_exit" =>
                /\ call'.err = NoErr
                /\ target' = target
                /\ states'["a"] = Insert0(states["a"], Reading("a"))]_vars

\* C13 witness: a defer() block has just closed after two store triggers
\* met inside it, and the one snapshot there is holds a value assigned there.
C13_Witness ==
    /\ call = CallWith("defer_exit", "a", NoErr, 2)
    /\ Len(states["a"]) = 1
    /\ Len(items_to_record["a"]) = 1
    /\ states["a"][1] = [x |-> 1]
    /\ target["a"]["x"] = 1

\* the binding of t with that label reads the attribute of the same name
ReadsItself(t, name) ==
    \E i \in 1..Len(items_to_record[t]) :
        items_to_record[t][i].label = name /\ items_to_record[t][i].getter = name

\* C20: on an Inference object, outside any window, assigning v to an
\* attribute whose name is a registered label pushes exactly one snapshot,
\* holding v for a binding that reads that attribute; assigning to any
\* other attribute pushes none; and after assigning v1 then v2, restore(1)
\* sets the attribute back to v1.
C20_AutoStore ==
    (alive["a"] /\ ~defer["a"]) =>
        \A n \in Names : \A v1, v2 \in Values :
            LET W1 == Setattr(World, "a", n, v1, MaxDepth)
                W2 == Setattr(W1, "a", n, v2, MaxDepth)
                W3 == Restore(W2, "a", 1, MaxDepth)
            IN IF n \in Range(labels("a"))
               THEN /\ W1.err = NoErr
                    /\ CountEvents(W1.log, "push", "a") = 1
                    /\ Len(W1.states["a"]) = Len(states["a"]) + 1
                    /\ ReadsItself("a", n) =>
                          /\ W1.states["a"][1][n] = v1
                          /\ W3.err = NoErr
                          /\ W3.target["a"][n] = v1
               ELSE /\ W1.states = states
                    /\ W1.target["a"][n] = v1

\* C20 witness: x was assigned 0 and then 1, each assignment stored, and
\* restore(1) has just set x back to 0.
C20_Witness ==
    /\ call = Call("restore", "a", NoErr)
    /\ items_to_record["a"] = <<ItemStoring("x", "x", "x")>>
    /\ Len(states["a"]) = 3
    /\ states["a"][3] = [x |-> 0]
    /\ states["a"][2] = [x |-> 1]
    /\ states["a"][1] = [x |-> 0]
    /\ target["a"]["x"] = 0

\* what holds right after unregister(n): n is not bound, a store() would
\* make a snapshot without it, and no restore(k) would write attribute n
AfterUnregister(n) ==
    /\ n \notin Range(labels("a"))
    /\ LET W == Store(World, "a", FALSE, MaxDepth)
       IN CountEvents(W.log, "push", "a") = 1 => n \notin DOMAIN W.states["a"][1]
    /\ \A k \in RegIndexes :
          k < Len(states["a"]) =>
              Restore(World, "a", k, MaxDepth).target["a"][n] = target["a"][n]

\* C14: after unregister(label) the label is in no later snapshot and no
\* restore writes it; the call leaves the snapshots in the history (and the
\* target) as they are; and for a label that is not bound it changes no
\* binding and emits nothing.
C14_Unregister ==
    /\ [](call.op = "unregister" => AfterUnregister(call.arg))
    /\ [][call'.op = "unregister" =>
             /\ states' = states
             /\ target' = target
             /\ call'.arg \notin Range(labels("a")) =>
                   /\ items_to_record' = items_to_record
                   /\ Removed(items_to_record["a"], call'.arg) = 0
                   /\ heard' = Silent]_vars

\* C14 witness: x has just been unregistered while y stays bound; the
\* snapshot at index 1 still holds x, with a value the target no longer has.
C14_Witness ==
    /\ call = CallWith("unregister", "a", NoErr, "x")
    /\ labels("a") = <<"y">>
    /\ Len(states["a"]) = 2
    /\ DOMAIN states["a"][2] = {"x", "y"}
    /\ states["a"][2]["x"] # target["a"]["x"]
    /\ states["a"][2]["y"] # target["a"]["y"]

\* the binding of a in the specification of mutable values
CopyValue == items_to_record["a"][1].copy_value

\* the object (or plain value) the snapshot at position i holds for x
Held(i) == states["a"][i]["x"]

\* C15: in a history made by stores alone, with copy_value=True no snapshot
\* holds the object the target refers to, the snapshot just stored holds a
\* new object with the same content, and changing the live object in place
\* changes the content of no snapshot; with copy_value=False the snapshot
\* just stored holds the live object itself, so the change shows in it.
C15_CopyOnStore ==
    /\ [](storeLog["a"].kept /\ target["a"]["x"] \in Objects =>
            /\ CopyValue =>
                  \A i \in 1..Len(states["a"]) : Held(i) # target["a"]["x"]
            /\ call = Call("store", "a", NoErr) =>
                  /\ CopyValue => heap[Held(1)] = heap[target["a"]["x"]]
                  /\ ~CopyValue => Held(1) = target["a"]["x"])
    /\ [][(storeLog["a"].kept /\ call'.op = "mutate") =>
             /\ states' = states
             /\ \A i \in 1..Len(states["a"]) :
                   /\ (CopyValue /\ Held(i) \in Objects) => heap'[Held(i)] = heap[Held(i)]
                   /\ (~CopyValue /\ call.op = "store" /\ i = 1) =>
                         /\ heap'[Held(i)] # heap[Held(i)]
                         /\ heap'[Held(i)] = heap'[target["a"]["x"]]]_vars

\* C15 witness: with copy_value=True, the live object was changed in place
\* after two stores, and both snapshots keep the content they were stored
\* with.
C15_Witness ==
    /\ call = Call("mutate", "a", NoErr)
    /\ storeLog["a"].kept
    /\ CopyValue
    /\ Len(states["a"]) = 2
    /\ Held(1) \in Objects /\ Held(2) \in Objects
    /\ heap[Held(1)] # heap[target["a"]["x"]]
    /\ heap[Held(2)] = heap[Held(1)]

\* a has just written its top snapshot to the backend
JustSerialised ==
    \/ call = Call("serialise", "a", NoErr)
    \/ call = CallWith("store", "a", NoErr, "serialise")

\* C16: once a has stored and serialised, a deserialise() on the fresh
\* tracker b (same bindings, same backend and identifier, empty history)
\* returns with every bound attribute of b's target equal in value to what
\* a's serialised snapshot holds for its label.
C16_RoundTrip ==
    (/\ JustSerialised
     /\ serialiser["b"] = serialiser["a"]
     /\ items_to_record["b"] = items_to_record["a"]
     /\ states["b"] = <<>>) =>
        LET W == Deserialise(World, "b", MaxDepth)
        IN W.err # "MemoryError" =>
            /\ W.err = NoErr
            /\ \A i \in 1..Len(items_to_record["b"]) :
                  Encode(W.heap, W.target["b"][items_to_record["b"][i].getter])
                     = Encode(heap, states["a"][1][items_to_record["b"][i].label])

\* C16 witness: b.deserialise() has just returned, and b's target has the
\* values a serialised: a new object with content 1 for x, and 1 for y.
C16_Witness ==
    /\ call = Call("deserialise", "b", NoErr)
    /\ Len(states["b"]) = 2
    /\ files["id"] = File([x |-> [boxed |-> TRUE, content |-> 1],
                           y |-> [boxed |-> FALSE, content |-> 1]])
    /\ target["b"]["x"] \in Objects
    /\ target["b"]["x"] # target["a"]["x"]
    /\ heap[target["b"]["x"]] = 1
    /\ target["b"]["y"] = 1

\* C17: with no serialiser registered, serialise() and deserialise() raise
\* and leave history, target and backend as they are.
C17_NoBackend ==
    ~serialiser["a"].registered =>
        LET S == Serialise(World, "a")
            D == Deserialise(World, "a", MaxDepth)
        IN /\ S.err = "Exception"
           /\ D.err = "Exception"
           /\ S.states = states /\ S.target = target /\ S.files = files
           /\ D.states = states /\ D.target = target /\ D.files = files

\* C17 witness: after unregister_serialiser(), with a snapshot in the
\* history and one in the backend that differs from the target, a
\* deserialise() has just raised.
C17_Witness ==
    /\ ~serialiser["a"].registered
    /\ call = Call("deserialise", "a", "Exception")
    /\ files["id"].exists
    /\ Len(states["a"]) >= 1
    /\ "x" \in DOMAIN files["id"].data
    /\ files["id"].data["x"].content # target["a"]["x"]

\* C18 as claimed: store(serialise=True) with no serialiser registered skips
\* the serialisation: it returns without error, having pushed the snapshot
\* and emitted 'stored'.
C18_SerialiseSkipped ==
    (~serialiser["a"].registered /\ alive["a"] /\ ~defer["a"]) =>
        LET W == Store(World, "a", TRUE, MaxDepth)
        IN /\ W.err = NoErr
           /\ CountEvents(W.log, "push", "a") = 1
           /\ CountEvents(W.log, "stored", "a") = 1

\* how often c is among the slots of a's signal ch
Connections(c, ch) == Len(SelectSeq(slots["a"][ch], LAMBDA slot : slot = c))

\* C19: on every step, a callback connected at most once to each signal of
\* a has been called once for each signal it is connected to per successful
\* register ('registered'), removed binding ('unregistered'), successful
\* store, restore's own store included ('stored'), and successful restore
\* ('restored') the step made, and not at all through a signal it is not,
\* or no longer, connected to.
C19_Signals ==
    [][\A c \in Callbacks :
          (\A ch \in Channels : Connections(c, ch) <= 1) =>
              heard'[c] =
                  Connections(c, "registered")
                      * (IF Len(items_to_record'["a"]) > Len(items_to_record["a"])
                         THEN 1 ELSE 0)
                  + Connections(c, "unregistered")
                      * (IF Len(items_to_record'["a"]) < Len(items_to_record["a"])
                         THEN 1 ELSE 0)
                  + Connections(c, "stored")
                      * (IF call'.op \in {"store", "restore"} /\ call'.err = NoErr
                         THEN Len(states'["a"]) - Len(states["a"]) ELSE 0)
                  + Connections(c, "restored")
                      * (IF call'.op = "restore" /\ call'.err = NoErr THEN 1 ELSE 0)]_vars

\* C19 witness: a restore has just returned with g and f connected to
\* 'stored', f also to 'restored' and to nothing else: f was called twice
\* and g once.
C19_Witness ==
    /\ call = Call("restore", "a", NoErr)
    /\ slots["a"] = [ch \in Channels |->
                        IF ch = "stored" THEN <<"g", "f">>
                        ELSE IF ch = "restored" THEN <<"f">> ELSE <<>>]
    /\ heard = [c \in Callbacks |-> IF c = "f" THEN 2 ELSE 1]

\* C21 as claimed: with a and b grouped while both histories were empty and
\* unbounded, count(a) = count(b) after every store() or restore(k) made on
\* either of them.
C21_CountsInStep ==
    (TwoCycle("a", "b") /\ call.op \in {"store", "restore"}) =>
        Len(states["a"]) = Len(states["b"])

\* where the first event <<kind, t>> stands in a log (0: nowhere)
FirstEvent(log, kind, t) ==
    IF \E i \in 1..Len(log) : log[i] = <<kind, t>>
    THEN CHOOSE i \in 1..Len(log) :
            log[i] = <<kind, t>> /\ \A j \in 1..(i - 1) : log[j] # <<kind, t>>
    ELSE 0

\* C22 as claimed: in A.restore(k) on a grouped tracker, the implicit store
\* of A (its new top entry) is made before the restore reaches any peer.
C22_OwnStoreBeforePeers ==
    \A A, B \in Pair : \A k \in PairIndexes :
        (TwoCycle(A, B) /\ k < Len(states[A]) /\ k < Len(states[B])) =>
            LET W == Restore(World, A, k, MaxDepth)
            IN /\ W.err = NoErr
               /\ FirstEvent(W.log, "push", A) > 0
               /\ FirstEvent(W.log, "restore", B) > 0
               /\ FirstEvent(W.log, "push", A) < FirstEvent(W.log, "restore", B)

\* C24: the guard list is empty between calls: whatever store() or
\* restore(k) is called, and whether it returns or raises (a failure in a
\* peer's nested call included), every tracker it marked is unmarked again.
C24_GuardReleased ==
    /\ ACTIVELY_PROCESSING = <<>>
    /\ \A t \in Trackers :
          /\ Store(World, t, FALSE, MaxDepth).active = <<>>
          /\ Restore(World, t, 0, MaxDepth).active = <<>>

\* C24 witness: in a group of three, a.restore(0) found a's own snapshot and
\* then raised IndexError from a peer's nested restore; the guard is empty.
C24_Witness ==
    /\ call = Call("restore", "a", "IndexError")
    /\ Len(states["a"]) = 1
    /\ Range(sync_group("a")) = Trackers
    /\ ACTIVELY_PROCESSING = <<>>

\* C26: whatever groups the group() calls have made, a store() or a
\* restore(k) on any tracker comes to an end: the chain of nested calls
\* never outgrows the depth the model follows.
C26_Terminates ==
    /\ call.err # "RecursionError"
    /\ \A t \in Trackers :
          /\ Store(World, t, FALSE, MaxDepth).err # "RecursionError"
          /\ Restore(World, t, 0, MaxDepth).err # "RecursionError"

\* C26 witness: a.restore(0) has just returned while a is grouped with
\* itself and with a peer, and some tracker is in two groups.
C26_Witness ==
    /\ call = Call("restore", "a", NoErr)
    /\ Len(sync_group("a")) > Cardinality(Range(sync_group("a")))
    /\ Cardinality(Range(sync_group("a"))) >= 2
    /\ \E t \in Trackers :
          Cardinality({i \in 1..Len(SYNC_GROUPS) : t \in Range(SYNC_GROUPS[i])}) > 1

\* the events of a log that are t's own
Own(log, t) == SelectSeq(log, LAMBDA e : e[2] = t)

\* the trackers other than t that a log shows pushing a snapshot, in order
PeerPushes(log, t) ==
    LET pushes == SelectSeq(log, LAMBDA e : e[1] = "push" /\ e[2] # t)
    IN [i \in 1..Len(pushes) |-> pushes[i][2]]

IsPrefix(s, r) == Len(s) <= Len(r) /\ SubSeq(r, 1, Len(s)) = s

\* C23: in A.store(serialise) on a grouped tracker, A's push (with its
\* eviction), its serialise step and its 'stored' emit all come before
\* anything a peer does, and the peers store in the order the group lists
\* them (as far as the chain gets before a peer raises).
C23_StoreOrder ==
    \A A \in Trackers : \A serialise \in BOOLEAN :
        LET W == Store(World, A, serialise, MaxDepth)
            wanted == serialise \/ serialiser[A].always
            peers == SelectSeq(sync_group(A), LAMBDA m : m # A)
        IN /\ \A i, j \in 1..Len(W.log) :
                 (W.log[i][2] = A /\ W.log[j][2] # A) => i < j
           /\ (wanted => serialiser[A].registered) =>
                 Own(W.log, A) =
                     IF wanted
                     THEN << <<"push", A>>, <<"serialise", A>>, <<"stored", A>> >>
                     ELSE << <<"push", A>>, <<"stored", A>> >>
           /\ Len(W.states[A]) = Min(Len(states[A]) + 1, max_states[A])
           /\ IsPrefix(PeerPushes(W.log, A), peers)
           /\ W.err = NoErr => PeerPushes(W.log, A) = peers

\* C23 witness: b.store(serialise=True) has just returned in the group
\* [c, b, a], every history full and the backend written.
C23_Witness ==
    /\ call = CallWith("store", "b", NoErr, "serialise")
    /\ sync_group("b") = <<"c", "b", "a">>
    /\ \A t \in Trackers : Len(states[t]) = CapStates
    /\ files["id"].exists

\* the world a caller goes on in after catching the exception of a call
Caught(W) == [W EXCEPT !.err = NoErr, !.log = <<>>, !.heard = Silent]

\* C25 as claimed: after restore(index) has failed, on an index out of range
\* or on a label the snapshot lacks, the tracker is not left deferred: the
\* next store() outside any window adds a history entry.
C25_FailedRestoreStoresOn ==
    \A k \in RegIndexes :
        LET W == Restore(World, "a", k, MaxDepth)
        IN W.err \in {"IndexError", "KeyError"} =>
              /\ ~W.defer["a"]
              /\ CountEvents(Store(Caught(W), "a", FALSE, MaxDepth).log, "push", "a") = 1

\* C27: on the ungrouped tracker with unbounded history, a restore(k) that
\* succeeds on a history of length n leaves n + 1 snapshots: every old one,
\* in the old order, one place further down, and on top of them a snapshot
\* of the values just restored.
C27_RestoreKeepsHistory ==
    max_states["a"] = 0 =>
        \A k \in Indexes :
            LET W == Restore(World, "a", k, MaxDepth)
                n == Len(states["a"])
            IN W.err = NoErr =>
                  /\ Len(W.states["a"]) = n + 1
                  /\ \A i \in 1..n : W.states["a"][i + 1] = states["a"][i]
                  /\ W.states["a"][1] =
                        [l \in Range(labels("a")) |->
                            states["a"][IndexPos(states["a"], k)][l]]
                  /\ \A l \in Range(labels("a")) :
                        W.states["a"][1][l] = W.target["a"][l]

\* C27 witness: a restore to the oldest of three snapshots has just
\* returned: its values are on top, and the three are all still below.
C27_Witness ==
    /\ max_states["a"] = 0
    /\ call = Call("restore", "a", NoErr)
    /\ states["a"] = << [x |-> 0], [x |-> 1], [x |-> 1], [x |-> 0] >>
    /\ target["a"]["x"] = 0

\* C28 as claimed: restore(index) raises IndexError for every index outside
\* 0..count()-1, the negative ones included, and then writes nothing to the
\* target and adds nothing to the history.
C28_IndexOutsideRange ==
    \A index \in Indexes :
        index \notin 0..(Len(states["a"]) - 1) =>
            LET W == Restore(World, "a", index, MaxDepth)
            IN /\ W.err = "IndexError"
               /\ W.target = target
               /\ W.states = states

\* C29: restore(k) to a snapshot that lacks a label bound now raises
\* KeyError; the label is not skipped, nothing is stored, and no binding
\* after it in the list is written.
C29_MissingLabelFails ==
    \A k \in RegIndexes :
        (k < Len(states["a"]) /\ ~Covers(states["a"][k + 1], "a")) =>
            LET W == Restore(World, "a", k, MaxDepth)
                its == items_to_record["a"]
                missing == CHOOSE i \in 1..Len(its) :
                              /\ its[i].label \notin DOMAIN states["a"][k + 1]
                              /\ \A j \in 1..(i - 1) :
                                    its[j].label \in DOMAIN states["a"][k + 1]
            IN /\ W.err = "KeyError"
               /\ W.states = states
               /\ CountEvents(W.log, "restored", "a") = 0
               /\ \A i \in missing..Len(its) :
                     W.target["a"][its[i].label] = target["a"][its[i].label]

\* C29 witness: y was registered after the only snapshot was taken, and a
\* restore to that snapshot has just raised KeyError, x already written.
C29_Witness ==
    /\ call = Call("restore", "a", "KeyError")
    /\ labels("a") = <<"x", "y">>
    /\ Len(states["a"]) = 1
    /\ DOMAIN states["a"][1] = {"x"}
    /\ target["a"]["x"] = states["a"][1]["x"]
    /\ target["a"]["y"] = 1

\* C30: while _defer is set, store() changes nothing at all: no snapshot,
\* no write to the backend (serialise asked for or always on), no 'stored'
\* emit, no store on a peer, no mark in the guard, and no error when the
\* target is gone.
C30_DeferredStoreIsSilent ==
    defer["a"] =>
        \A serialise \in BOOLEAN : Store(World, "a", serialise, MaxDepth) = World

\* C30 witness: inside an open block, with the target gone, a callback on
\* 'stored', always_serialise on and a peer in the group, a.store(True) has
\* just returned: nothing was ever written to the backend.
C30_Witness ==
    /\ call = CallWith("store", "a", NoErr, "serialise")
    /\ defer["a"]
    /\ window["a"] # <<>>
    /\ window["a"][1].held >= 1
    /\ ~alive["a"]
    /\ serialiser["a"].always
    /\ slots["a"]["stored"] = <<"f">>
    /\ heard = Silent
    /\ Len(states["a"]) = 1
    /\ ~files["id"].exists

\* C31 as claimed: as long as a defer() or omit() block of the tracker is
\* open, whatever was opened and closed inside it (another block, or a
\* restore() call), a store() adds no history entry.
C31_SuppressedWhileOpen ==
    window["a"] # <<>> =>
        Store(World, "a", FALSE, MaxDepth).states = states

\* C34 as claimed: for a binding of an attribute name under a label of its
\* own (the setter left to default to the getter), store, then a change of
\* that attribute, then restore(0) puts the stored value back.
C34_LabelledRoundTrip ==
    (alive["a"] /\ ~defer["a"]) =>
        \A i \in 1..Len(items_to_record["a"]) : \A v \in Values :
            LET item == items_to_record["a"][i]
                W1 == Store(World, "a", FALSE, MaxDepth)
                W2 == [W1 EXCEPT !.target["a"][item.setter] = v]
                W3 == Restore(W2, "a", 0, MaxDepth)
            IN (item.setter = item.getter /\ item.label # item.getter) =>
                  /\ W3.err = NoErr
                  /\ W3.target["a"][item.setter] = target["a"][item.setter]

\* C36 as claimed: with a backend registered, serialise() succeeds in
\* every state, before the first store too: it hands the backend the top
\* snapshot once, under the identifier, and leaves history and target alone.
C36_SerialiseAnytime ==
    serialiser["a"].registered =>
        LET W == Serialise(World, "a")
        IN /\ W.err = NoErr
           /\ CountEvents(W.log, "serialise", "a") = 1
           /\ W.states = states
           /\ W.target = target
           /\ W.files[serialiser["a"].identifier]
                 = File(EncodeEach(heap, states["a"][1]))

\* C37 as claimed: when store(serialise=True), or store() with
\* always_serialise, raises out of its serialise step, the history is as it
\* was before the call.
C37_FailedStoreAddsNothing ==
    \A serialise \in BOOLEAN :
        LET W == Store(World, "a", serialise, MaxDepth)
        IN (W.err = "Exception" /\ (serialise \/ serialiser["a"].always)) =>
              W.states = states

\* C40 as claimed: whatever group() calls were made, a.group(a) among them,
\* no sync group holds a tracker twice, and sync_group() returns none twice.
C40_NoDuplicates ==
    /\ \A i \in 1..Len(SYNC_GROUPS) :
          Len(SYNC_GROUPS[i]) = Cardinality(Range(SYNC_GROUPS[i]))
    /\ \A t \in Trackers : Len(sync_group(t)) = Cardinality(Range(sync_group(t)))


\* C38: on the ungrouped tracker with at least two snapshots, whose target
\* reads as the top snapshot (nothing changed since the last store) and
\* whose bound labels the second snapshot has, restore(1) followed by
\* restore(1) both succeed and leave every bound value as it was before the
\* first: the first call's implicit store has put the restored values on
\* top, so index 1 is by then the snapshot of the original values.
C38_SecondUndoesFirst ==
    (/\ Len(states["a"]) >= 2
     /\ Reading("a") = states["a"][1]
     /\ Covers(states["a"][2], "a")) =>
        LET W1 == Restore(World, "a", 1, MaxDepth)
            W2 == Restore(W1, "a", 1, MaxDepth)
        IN /\ W1.err = NoErr
           /\ RestoredTo(W1, "a", states["a"][2])
           /\ W2.err = NoErr
           /\ RestoredTo(W2, "a", states["a"][1])
           /\ \A l \in Range(labels("a")) : W2.target["a"][l] = target["a"][l]

\* C38 witness: restore(1) has returned twice on the history <<1, 0>>; the
\* target is back at 1 and each call has left its snapshot on top.
C38_Witness ==
    /\ max_states["a"] = 0
    /\ call = Call("restore", "a", NoErr)
    /\ states["a"] = << [x |-> 1], [x |-> 0], [x |-> 1], [x |-> 0] >>
    /\ target["a"]["x"] = 1
    /\ Reading("a") = states["a"][1]


\* SpecAlways: a and b after a.group(b), histories capped; a's serialiser is
\* registered with or without always_serialise; a's target changes, either
\* tracker stores and restores, and a's caller enters and leaves omit().
InitAlways ==
    Constructed([t \in Trackers |-> CapStates], <<Item("x", "x", "x")>>, {},
                GroupInto(<<>>, "a", "b"))

NextAlways ==
    \/ \E v \in Values : SetAttr("a", "x", v)
    \/ \E always \in BOOLEAN : RegisterSerialiser("a", "id", always)
    \/ \E t \in Pair : StoreCall(t, FALSE, CapStates)
    \/ \E t \in Pair, index \in PairIndexes : RestoreCall(t, index, CapStates)
    \/ OmitEnter("a")
    \/ WindowExit("a", CapStates)

SpecAlways == InitAlways /\ [][NextAlways]_vars

\* what the backend holds under t's identifier is t's top snapshot
BackendHoldsTop(W, t) ==
    /\ W.states[t] # <<>>
    /\ W.files[serialiser[t].identifier] = File(EncodeEach(W.heap, W.states[t][1]))

\* C33: while a's backend is registered with always_serialise, every
\* store() and restore(k), on a or on its peer b, that ends without an
\* exception and in which a stored (pushed a snapshot) or was restored,
\* leaves the backend holding, under a's identifier, a's top snapshot.
C33_BackendFollowsTop ==
    (serialiser["a"].registered /\ serialiser["a"].always) =>
        \A t \in Pair :
            /\ LET W == Store(World, t, FALSE, MaxDepth)
               IN (W.err = NoErr /\ CountEvents(W.log, "push", "a") > 0) =>
                     BackendHoldsTop(W, "a")
            /\ \A k \in PairIndexes :
                 LET W == Restore(World, t, k, MaxDepth)
                 IN (W.err = NoErr /\ CountEvents(W.log, "restore", "a") > 0) =>
                       BackendHoldsTop(W, "a")

\* C33 witness: with always_serialise on a, b.restore(1) has returned and has
\* taken a back from 1 to 0: the backend holds a's new top, x = 0.
C33_Witness ==
    /\ serialiser["a"].registered /\ serialiser["a"].always
    /\ call = Call("restore", "b", NoErr)
    /\ Len(states["a"]) = 2
    /\ states["a"][1] = [x |-> 0]
    /\ states["a"][2] = [x |-> 0]
    /\ target["a"]["x"] = 0
    /\ files["id"] = File(EncodeEach(heap, states["a"][1]))


\* SpecFail: three trackers in the lock-step group <<a, b, c>>, made at
\* construction, histories capped; a's target changes, any target may go
\* out of scope, and any of the three stores and restores.
InitFail ==
    Constructed([t \in Trackers |-> CapStates], <<Item("x", "x", "x")>>, {},
                GroupInto(GroupInto(<<>>, "a", "b"), "a", "c"))

NextFail ==
    \/ \E v \in Values : SetAttr("a", "x", v)
    \/ \E t \in Trackers : Destroy(t)
    \/ \E t \in Trackers : StoreCall(t, FALSE, CapStates)
    \/ \E t \in Trackers, index \in PairIndexes : RestoreCall(t, index, CapStates)

SpecFail == InitFail /\ [][NextFail]_vars

\* the peers t's guard hands to the lock-step loop, in visiting order
Peers(t) == SelectSeq(sync_group(t), LAMBDA m : m # t)

\* the call chain did something on u
Touched(W, u) == \E i \in 1..Len(W.log) : W.log[i][2] = u

\* u's propagated store raises: it is not deferred and its target is gone
StoreFails(u) == ~defer[u] /\ ~alive[u]

\* u's propagated restore(k) raises: no snapshot at k, or the target is gone
RestoreFails(u, k) == ~IndexOk(states[u], k) \/ ~alive[u]

\* C35: when the initiator's own store (or restore) goes through and the
\* j-th peer in visiting order is the first whose propagated store (or
\* restore) raises, the initiating call ends with that peer's exception,
\* the initiator's pushed snapshot (or its written bindings) is still
\* there, the peers before the j-th were processed, and the peers after it
\* were not touched.
C35_PeerFailureEscapes ==
    \A t \in Trackers :
        \A j \in 1..Len(Peers(t)) :
            /\ (/\ alive[t] /\ ~defer[t]
                /\ StoreFails(Peers(t)[j])
                /\ \A i \in 1..(j - 1) : ~StoreFails(Peers(t)[i])) =>
                  LET W == Store(World, t, FALSE, MaxDepth)
                  IN /\ W.err = "StorageError"
                     /\ W.states[t] = Push(states[t], Reading(t), max_states[t])
                     /\ CountEvents(W.log, "push", t) = 1
                     /\ \A i \in 1..(j - 1) :
                           defer[Peers(t)[i]] \/ CountEvents(W.log, "push", Peers(t)[i]) = 1
                     /\ ~Touched(W, Peers(t)[j])
                     /\ \A i \in (j + 1)..Len(Peers(t)) :
                           /\ ~Touched(W, Peers(t)[i])
                           /\ W.states[Peers(t)[i]] = states[Peers(t)[i]]
            /\ \A k \in PairIndexes :
                 (/\ alive[t] /\ IndexOk(states[t], k)
                  /\ RestoreFails(Peers(t)[j], k)
                  /\ \A i \in 1..(j - 1) : ~RestoreFails(Peers(t)[i], k)) =>
                    LET W == Restore(World, t, k, MaxDepth)
                    IN /\ W.err = IF ~IndexOk(states[Peers(t)[j]], k) THEN "IndexError"
                                  ELSE "AttributeError"
                       /\ RestoredTo(W, t, states[t][k + 1])
                       /\ CountEvents(W.log, "write", t) = Len(items_to_record[t])
                       /\ \A i \in 1..(j - 1) :
                             /\ CountEvents(W.log, "restored", Peers(t)[i]) = 1
                             /\ RestoredTo(W, Peers(t)[i], states[Peers(t)[i]][k + 1])
                       /\ \A i \in (j + 1)..Len(Peers(t)) :
                             /\ ~Touched(W, Peers(t)[i])
                             /\ W.states[Peers(t)[i]] = states[Peers(t)[i]]
                             /\ W.target[Peers(t)[i]] = target[Peers(t)[i]]

\* C35 witness: in the group <<a, b, c>> with b's target gone, a.restore(1)
\* has ended with b's exception: a's binding is written (1 -> 0), nothing
\* new is on a's history, and c is as it was.
C35_Witness ==
    /\ SYNC_GROUPS = << <<"a", "b", "c">> >>
    /\ ~alive["b"] /\ alive["c"]
    /\ call = Call("restore", "a", "AttributeError")
    /\ states["a"] = << [x |-> 1], [x |-> 0] >>
    /\ target["a"]["x"] = 0
    /\ Len(states["c"]) = 2
    /\ ~defer["c"]


\* SpecLoad: a has a serialiser and stores through it; b joins c's group
\* and a's, in either order; a's and b's targets change, b stores, and a
\* deserialises.
InitLoad ==
    Constructed([t \in Trackers |-> CapStates], <<Item("x", "x", "x")>>, {}, <<>>)

NextLoad ==
    \/ GroupCall("a", "b", 0) /\ GroupsWithin(SYNC_GROUPS')
    \/ GroupCall("c", "b", 0) /\ GroupsWithin(SYNC_GROUPS')
    \/ RegisterSerialiser("a", "id", FALSE)
    \/ \E t \in Pair, v \in Values : SetAttr(t, "x", v)
    \/ StoreCall("a", TRUE, MaxPersistHist)
    \/ StoreCall("b", FALSE, MaxPersistHist)
    \/ DeserialiseCall("a", MaxPersistHist)

SpecLoad == InitLoad /\ [][NextLoad]_vars

\* C39 as claimed: a.deserialise() changes a's history and a's target only:
\* history and target of every other tracker, a's lock-step peers included,
\* are as before.
C39_OnlyItself ==
    LET W == Deserialise(World, "a", MaxDepth)
    IN \A u \in Trackers \ {"a"} :
          /\ W.states[u] = states[u]
          /\ W.target[u] = target[u]

\* C39 amended: a.deserialise() changes history and target of a and of the
\* members of a's sync_group() only: whatever a holds and however the call
\* ends, every tracker outside that group has its history and its target as
\* before, and the call did nothing on it.
C39_OnlyItsGroup ==
    LET W == Deserialise(World, "a", MaxDepth)
    IN \A u \in Trackers \ Range(sync_group("a")) :
          /\ W.states[u] = states[u]
          /\ W.target[u] = target[u]
          /\ ~Touched(W, u)

\* C39 witness: b is in c's group and in a's; a.deserialise() has returned
\* and has taken b along (b's history has grown to the cap), while c still
\* has the one snapshot it had.
C39_Witness ==
    /\ SYNC_GROUPS = << <<"c", "b">>, <<"a", "b">> >>
    /\ call = Call("deserialise", "a", NoErr)
    /\ Len(states["a"]) = CapStates
    /\ Len(states["b"]) = CapStates
    /\ Len(states["c"]) = 1
    /\ target["a"]["x"] = 1
    /\ states["a"][1] = [x |-> 1]


\* SpecAuto: tracker a over an Inference object with the attributes x and y
\* registered, so that every assignment to them stores: assign, store,
\* restore.
AutoIndexes == 0..(MaxAutoHist - 2)

InitAuto ==
    Constructed([t \in Trackers |-> DefaultMaxStates],
                <<ItemStoring("x", "x", "x"), ItemStoring("y", "y", "y")>>, {}, <<>>)

NextAuto ==
    \/ \E n \in Names, v \in Values : Assign("a", n, v, MaxAutoHist)
    \/ StoreCall("a", FALSE, MaxAutoHist)
    \/ \E index \in AutoIndexes : RestoreCall("a", index, MaxAutoHist)

SpecAuto == InitAuto /\ [][NextAuto]_vars

\* C32: on the tracker of an Inference object, whose every binding stores
\* when it is written, a restore(k) that succeeds writes each binding once
\* and adds exactly one snapshot to the history: the stores the writes
\* trigger find _defer set, and only the implicit store at the end pushes.
C32_OneEntryPerRestore ==
    (\A i \in 1..Len(items_to_record["a"]) : items_to_record["a"][i].storing) =>
        \A k \in AutoIndexes :
            LET W == Restore(World, "a", k, MaxDepth)
            IN W.err = NoErr =>
                  /\ CountEvents(W.log, "write", "a") = Len(items_to_record["a"])
                  /\ CountEvents(W.log, "push", "a") = 1
                  /\ Len(W.states["a"]) = Len(states["a"]) + 1
                  /\ SubSeq(W.states["a"], 2, Len(W.states["a"])) = states["a"]

\* C32 witness: after a store of x = 0, y = 0 and the assignments x = 1 and
\* y = 1, restore(2) has written both attributes back to 0 and the history
\* of three has grown to four.
C32_Witness ==
    /\ call = Call("restore", "a", NoErr)
    /\ Len(items_to_record["a"]) = 2
    /\ \A i \in 1..2 : items_to_record["a"][i].storing
    /\ states["a"] = << [x |-> 0, y |-> 0], [x |-> 1, y |-> 1], [x |-> 1, y |-> 0],
                        [x |-> 0, y |-> 0] >>
    /\ target["a"] = [x |-> 0, y |-> 0]

====
